---- MODULE Spec2Model ----
(***************************************************************************)
(* A model of tools/ocp2aks.py, the OpenShift -> AKS manifest transformer. *)
(*                                                                         *)
(* Python values are modelled as tagged trees: None, str, int, dict.  A    *)
(* str is the sequence of its characters, so that substring tests, prefix  *)
(* tests, lower-casing and concatenation are computed, not assumed.  A     *)
(* dict is a function from its keys to values: the keys the program names  *)
(* (kind, metadata, ...) are TLA+ strings, the keys of label and           *)
(* annotation maps are character sequences.  The insertion order of the    *)
(* keys is not modelled.  An uncaught Python exception is the value Raise. *)
(***************************************************************************)
EXTENDS Integers, Sequences, FiniteSets, TLC

VARIABLES
    phase,      \* position of main(): Idle, Scanning, Dispatching, Writing, Reporting, Done, Aborted
    args,       \* the parsed options (parse_args)
    root_created, \* whether out.mkdir(parents=True, exist_ok=True) has succeeded
    scanned,    \* number of source files src.rglob has yielded so far
    path,       \* the source file being processed
    docs,       \* its parsed documents
    idx,        \* number of documents of it dispatched so far
    out_docs,   \* its output bundle
    summary,    \* the four kind counters
    converted,  \* the converted total
    warnings,   \* the warning list
    outDir,     \* the files of the output directory: name -> bundle
    history,    \* one entry per source file taken: path, outcome, counters before/after
    report,     \* the rendered report, or NoReport
    call,       \* pure-function harness: the function under test and its inputs
    ret,        \* pure-function harness: its result, or NotCalled
    heap,       \* object-identity view: address -> content of a label map
    src_refs,   \* object-identity view: the source DeploymentConfig's label references
    out_refs    \* object-identity view: the converted Deployment's label references

vars == <<phase, args, root_created, scanned, path, docs, idx, out_docs, summary,
          converted, warnings, outDir, history, report, call, ret,
          heap, src_refs, out_refs>>

runVars  == <<phase, args, root_created, scanned, path, docs, idx, out_docs, summary,
              converted, warnings, outDir, history, report>>
callVars == <<call, ret>>
heapVars == <<heap, src_refs, out_refs>>

-----------------------------------------------------------------------------
(* Bounds of the model. *)

MaxImgLen == 2     \* longest raw image string drawn for map_image
MaxFiles  == 2     \* most paths the directory scan yields in a run
MaxDocs   == 2     \* most documents in one source file
MaxPasses == 2     \* times a document is fed through dispatch in a row
MaxSrcMaps == 2    \* most label maps in the source tree of a DeploymentConfig

-----------------------------------------------------------------------------
(* Python values. *)

None      == [t |-> "none"]
Str(s)    == [t |-> "str", s |-> s]
IntV(n)   == [t |-> "int", n |-> n]
Dict(f)   == [t |-> "dict", m |-> f]
ListV(l)  == [t |-> "list", l |-> l]
Raise     == [t |-> "raise"]
EmptyDict == Dict(<<>>)

IsDict(v) == v.t = "dict"
IsStr(v)  == v.t = "str"
IsRaise(v) == v.t = "raise"

\* bool(v): the truth value Python gives v in `v or default` and `if v`
Truthy(v) ==
    CASE v.t = "none" -> FALSE
      [] v.t = "str"  -> v.s # <<>>
      [] v.t = "int"  -> v.n # 0
      [] v.t = "dict" -> DOMAIN v.m # {}
      [] v.t = "list" -> v.l # <<>>
      [] OTHER        -> TRUE

\* v or w
Or(v, w) == IF Truthy(v) THEN v ELSE w

\* d.get(k, default) on a dict d
Get(d, k, default) == IF k \in DOMAIN d.m THEN d.m[k] ELSE default

\* d with d[k] = v
Put(d, k, v) == Dict([x \in DOMAIN d.m \cup {k} |-> IF x = k THEN v ELSE d.m[x]])

\* d with key k removed: d.pop(k, None)
Pop(d, k) == Dict([x \in DOMAIN d.m \ {k} |-> d.m[x]])

-----------------------------------------------------------------------------
(* Python strings, as sequences of characters. *)

\* sub in s
Contains(s, sub) ==
    \E i \in 1..(Len(s) - Len(sub) + 1) : SubSeq(s, i, i + Len(sub) - 1) = sub

\* s.startswith(p)
StartsWith(s, p) == Len(s) >= Len(p) /\ SubSeq(s, 1, Len(p)) = p

LowerChar(c) ==
    CASE
      c = "A" -> "a" [] c = "B" -> "b" [] c = "C" -> "c" [] c = "D" -> "d"
      [] c = "E" -> "e" [] c = "F" -> "f" [] c = "G" -> "g" [] c = "H" -> "h"
      [] c = "I" -> "i" [] c = "J" -> "j" [] c = "K" -> "k" [] c = "L" -> "l"
      [] c = "M" -> "m" [] c = "N" -> "n" [] c = "O" -> "o" [] c = "P" -> "p"
      [] c = "Q" -> "q" [] c = "R" -> "r" [] c = "S" -> "s" [] c = "T" -> "t"
      [] c = "U" -> "u" [] c = "V" -> "v" [] c = "W" -> "w" [] c = "X" -> "x"
      [] c = "Y" -> "y" [] c = "Z" -> "z"
      [] OTHER -> c

\* s.lower()
Lower(s) == [i \in 1..Len(s) |-> LowerChar(s[i])]

\* all strings over alphabet A of length at most n
RECURSIVE StringsUpTo(_, _)
StringsUpTo(A, n) ==
    IF n = 0 THEN {<<>>}
    ELSE LET shorter == StringsUpTo(A, n - 1)
         IN  shorter \cup {Append(s, c) : s \in shorter, c \in A}

S_latest == <<":", "l", "a", "t", "e", "s", "t">>
S_slash == <<"/">>
S_openshift_io == <<"o", "p", "e", "n", "s", "h", "i", "f", "t", ".", "i", "o", "/">>
S_app == <<"a", "p", "p">>
S_web == <<"w", "e", "b">>
S_None == <<"N", "o", "n", "e">>
S_tls == <<"-", "t", "l", "s">>
S_dot == <<".">>
S_Rolling == <<"R", "o", "l", "l", "i", "n", "g">>
S_recreate == <<"r", "e", "c", "r", "e", "a", "t", "e">>
S_Recreate == <<"R", "e", "c", "r", "e", "a", "t", "e">>
S_RollingUpdate == <<"R", "o", "l", "l", "i", "n", "g", "U", "p", "d", "a", "t", "e">>
S_25pct == <<"2", "5", "%">>
S_IfNotPresent == <<"I", "f", "N", "o", "t", "P", "r", "e", "s", "e", "n", "t">>
S_apps_v1 == <<"a", "p", "p", "s", "/", "v", "1">>
S_networking_v1 == <<"n", "e", "t", "w", "o", "r", "k", "i", "n", "g", ".", "k", "8", "s", ".", "i", "o", "/", "v", "1">>
K_DeploymentConfig == <<"D", "e", "p", "l", "o", "y", "m", "e", "n", "t", "C", "o", "n", "f", "i", "g">>
K_Route == <<"R", "o", "u", "t", "e">>
K_BuildConfig == <<"B", "u", "i", "l", "d", "C", "o", "n", "f", "i", "g">>
K_Deployment == <<"D", "e", "p", "l", "o", "y", "m", "e", "n", "t">>
K_Ingress == <<"I", "n", "g", "r", "e", "s", "s">>
S_deploymentconfig == <<"d", "e", "p", "l", "o", "y", "m", "e", "n", "t", "c", "o", "n", "f", "i", "g">>
S_route == <<"r", "o", "u", "t", "e">>
S_deployment_yaml == <<"d", "e", "p", "l", "o", "y", "m", "e", "n", "t", ".", "y", "a", "m", "l">>
S_ingress_yaml == <<"i", "n", "g", "r", "e", "s", "s", ".", "y", "a", "m", "l">>
S_yaml == <<".", "y", "a", "m", "l">>
S_yml == <<".", "y", "m", "l">>
S_ingress_class_key == <<"k", "u", "b", "e", "r", "n", "e", "t", "e", "s", ".", "i", "o", "/", "i", "n", "g", "r", "e", "s", "s", ".", "c", "l", "a", "s", "s">>
S_Prefix == <<"P", "r", "e", "f", "i", "x">>
S_unnamed == <<"u", "n", "n", "a", "m", "e", "d">>

-----------------------------------------------------------------------------
(* map_image *)

\* a plausible slip: the registry override is consulted before the raw image
map_image_override_first(image, name_hint, image_registry, repo_prefix) ==
    LET repo == IF repo_prefix # <<>> THEN repo_prefix \o S_slash \o name_hint
                ELSE name_hint
    IN  IF image_registry # <<>> /\ Contains(image_registry, <<":">>)
        THEN image_registry
        ELSE IF image # <<>>
                /\ (Contains(image, <<"/">>) \/ Contains(image, <<".">>))
                /\ Contains(image, <<":">>)
        THEN image
        ELSE IF image_registry # <<>>
        THEN image_registry \o S_slash \o repo \o S_latest
        ELSE IF image # <<>> THEN image ELSE repo \o S_latest

map_image(image, name_hint, image_registry, repo_prefix) ==
    LET repo == IF repo_prefix # <<>> THEN repo_prefix \o S_slash \o name_hint
                ELSE name_hint
    IN  IF image # <<>>
           /\ (Contains(image, <<"/">>) \/ Contains(image, <<".">>))
           /\ Contains(image, <<":">>)
        THEN image
        ELSE IF image_registry # <<>> /\ Contains(image_registry, <<":">>)
        THEN image_registry
        ELSE IF image_registry # <<>>
        THEN image_registry \o S_slash \o repo \o S_latest
        ELSE IF image # <<>> THEN image ELSE repo \o S_latest

-----------------------------------------------------------------------------
(* Helpers of the converters. *)

\* f"{v}" for the values the converters format into strings
Format(v) ==
    IF IsStr(v) THEN v.s ELSE IF v.t = "none" THEN S_None ELSE <<"<", v.t, ">">>

\* {k: v for k, v in anns.items() if not k.startswith("openshift.io/")}
FilterAnnotations(anns) ==
    Dict([k \in {x \in DOMAIN anns.m : ~StartsWith(x, S_openshift_io)} |-> anns.m[k]])

\* norm_labels on a dict: `meta or {}`, then setdefault("labels", {})
norm_labels(meta) ==
    IF "labels" \in DOMAIN meta.m THEN meta ELSE Put(meta, "labels", EmptyDict)

-----------------------------------------------------------------------------
(* to_ingress *)

\* a plausible slip: the source Route's TLS wins over the explicit secret
tls_entries_route_first(spec, name, host, tls_secret) ==
    IF Truthy(Get(spec, "tls", None))
    THEN <<Dict([hosts |-> ListV(<<host>>), secretName |-> Str(Format(name) \o S_tls)])>>
    ELSE IF tls_secret # <<>>
    THEN <<Dict([hosts |-> ListV(<<host>>), secretName |-> Str(tls_secret)])>>
    ELSE <<>>

\* lines 233-237: the TLS entries of the Ingress
tls_entries(spec, name, host, tls_secret) ==
    IF tls_secret # <<>>
    THEN <<Dict([hosts |-> ListV(<<host>>), secretName |-> Str(tls_secret)])>>
    ELSE IF Truthy(Get(spec, "tls", None))
    THEN <<Dict([hosts |-> ListV(<<host>>), secretName |-> Str(Format(name) \o S_tls)])>>
    ELSE <<>>

to_ingress(route, default_domain, ingress_class, tls_secret) ==
    LET meta == Get(route, "metadata", EmptyDict)
        spec == Or(Get(route, "spec", EmptyDict), EmptyDict)
    IN
    IF ~IsDict(meta) \/ ~IsDict(spec) THEN Raise       \* meta.get / spec.get
    ELSE
    LET name   == Get(meta, "name", Str(S_web))
        host   == Or(Get(spec, "host", None),
                     Str(Format(name) \o S_dot \o default_domain))
        to_ref == Or(Get(spec, "to", None), EmptyDict)
        port   == Or(Get(spec, "port", None), EmptyDict)
        labels == Or(Get(meta, "labels", None), EmptyDict)
    IN
    IF ~IsDict(to_ref) \/ ~IsDict(port) \/ ~IsDict(labels) THEN Raise
    ELSE
    LET svc_name    == Or(Get(to_ref, "name", None), name)
        target_port == Or(Get(port, "targetPort", None), IntV(80))
        tls         == tls_entries(spec, name, host, tls_secret)
        rules == ListV(<<Dict([
                    host |-> host,
                    http |-> Dict([paths |-> ListV(<<Dict([
                        path     |-> Str(S_slash),
                        pathType |-> Str(S_Prefix),
                        backend  |-> Dict([service |-> Dict([
                            name |-> svc_name,
                            port |-> IF IsStr(target_port)
                                     THEN Dict([name |-> target_port])
                                     ELSE Dict([number |-> target_port])])])])>>)])])>>)
    IN
    IF ~IsStr(target_port) /\ target_port.t # "int" THEN Raise   \* int(target_port)
    ELSE Dict([
        apiVersion |-> Str(S_networking_v1),
        kind       |-> Str(K_Ingress),
        metadata   |-> Dict([
            name        |-> name,
            labels      |-> Dict(labels.m),
            annotations |-> Dict(S_ingress_class_key :> Str(ingress_class))]),
        spec       |-> IF tls # <<>>
                       THEN Dict([rules |-> rules, tls |-> ListV(tls)])
                       ELSE Dict([rules |-> rules])])

-----------------------------------------------------------------------------
(* to_deployment *)

\* lines 174-183 for one container c: the image is resolved, the pull policy defaulted
normalize_container(c, name, image_registry, repo_prefix) ==
    LET img == Get(c, "image", Str(<<>>))
        raw == IF Truthy(img) THEN img.s ELSE <<>>          \* image or ""
        resolved == map_image(raw, Format(Get(c, "name", name)),
                              image_registry, repo_prefix)
        c1 == Put(c, "image", Str(resolved))
    IN  IF ~Truthy(Get(c1, "imagePullPolicy", None))
        THEN Put(c1, "imagePullPolicy", Str(S_IfNotPresent))
        ELSE c1

\* whether lines 173-183 run to their end on the pod spec
containers_ok(tpl_spec) ==
    /\ IsDict(tpl_spec)
    /\ LET cs == Get(tpl_spec, "containers", ListV(<<>>))
       IN  \/ cs.t = "list" /\ \A i \in 1..Len(cs.l) :
                 /\ IsDict(cs.l[i])
                 /\ LET img == Get(cs.l[i], "image", Str(<<>>))
                    IN  Truthy(img) => IsStr(img)
           \/ cs.t \in {"str", "dict"} /\ ~Truthy(cs)      \* an empty iterable

\* lines 173-183: the pod spec with every container normalized in place
normalize_containers(tpl_spec, name, image_registry, repo_prefix) ==
    LET cs == Get(tpl_spec, "containers", ListV(<<>>))
    IN  IF "containers" \in DOMAIN tpl_spec.m /\ cs.t = "list"
        THEN Put(tpl_spec, "containers",
                 ListV([i \in 1..Len(cs.l) |->
                    normalize_container(cs.l[i], name, image_registry, repo_prefix)]))
        ELSE tpl_spec

\* lines 154-166: the strategy of the Deployment, Raise when a step raises
strategy(spec) ==
    LET st == Or(Get(spec, "strategy", EmptyDict), EmptyDict)
    IN
    IF ~IsDict(st) THEN Raise
    ELSE
    LET st_type == Or(Get(st, "type", None), Str(S_Rolling))
    IN
    IF ~IsStr(st_type) THEN Raise                               \* .lower()
    ELSE IF StartsWith(Lower(st_type.s), S_recreate)
    THEN Dict([type |-> Str(S_Recreate)])
    ELSE
    LET params == Or(Get(st, "rollingParams", None), EmptyDict)
    IN
    IF ~IsDict(params) THEN Raise
    ELSE Dict([
        type          |-> Str(S_RollingUpdate),
        rollingUpdate |-> Dict([
            maxSurge       |-> Get(params, "maxSurge", Str(S_25pct)),
            maxUnavailable |-> Get(params, "maxUnavailable", Str(S_25pct))])])

\* line 119: the label map the three label copies are made of
chosen_labels(tpl_meta, meta, name) ==
    Or(Or(Get(tpl_meta, "labels", None), Get(meta, "labels", None)),
       Dict(S_app :> name))

\* lines 169-170 pop triggers/test/paused from the new spec, which never holds them
to_deployment(dc, image_registry, repo_prefix) ==
    LET meta0 == Get(dc, "metadata", EmptyDict)
        spec  == Get(dc, "spec", EmptyDict)
    IN
    IF ~IsDict(meta0) \/ ~IsDict(spec) THEN Raise       \* meta.get / spec.get
    ELSE
    LET name     == Get(meta0, "name", Str(S_app))
        meta     == norm_labels(meta0)
        template == Or(Get(spec, "template", EmptyDict), EmptyDict)
    IN
    IF ~IsDict(template) THEN Raise
    ELSE
    LET tm0 == Or(Get(template, "metadata", EmptyDict), EmptyDict)
    IN
    IF ~IsDict(tm0) THEN Raise                          \* setdefault
    ELSE
    LET tpl_meta == norm_labels(tm0)
        tpl_spec == Or(Get(template, "spec", EmptyDict), EmptyDict)
        labels   == chosen_labels(tpl_meta, meta, name)
        anns     == Or(Get(meta, "annotations", None), EmptyDict)
        tanns    == Or(Get(tpl_meta, "annotations", None), EmptyDict)
        strat    == strategy(spec)
    IN
    IF ~IsDict(anns) \/ ~IsDict(tanns) \/ IsRaise(strat) \/ ~containers_ok(tpl_spec)
    THEN Raise
    ELSE Dict([
        apiVersion |-> Str(S_apps_v1),
        kind       |-> Str(K_Deployment),
        metadata   |-> Dict([
            name        |-> name,
            labels      |-> labels,
            annotations |-> FilterAnnotations(anns)]),
        spec       |-> Dict([
            replicas |-> Get(spec, "replicas", IntV(1)),
            selector |-> Dict([matchLabels |-> labels]),
            template |-> Dict([
                metadata |-> Dict([
                    labels      |-> labels,
                    annotations |-> FilterAnnotations(tanns)]),
                spec     |-> normalize_containers(tpl_spec, name,
                                                  image_registry, repo_prefix)]),
            strategy |-> strat])])

-----------------------------------------------------------------------------
(* Paths (pathlib.Path): a path is the sequence of its components. *)

PathName(p) == p[Len(p)]

\* index of the last "." of a name, 0 when it has none
LastDot(name) ==
    LET dots == {i \in 1..Len(name) : name[i] = "."}
    IN  IF dots = {} THEN 0 ELSE CHOOSE i \in dots : \A j \in dots : j <= i

\* PurePath.suffix: from the last dot, unless the dot starts or ends the name
Suffix(name) ==
    LET i == LastDot(name)
    IN  IF 1 < i /\ i < Len(name) THEN SubSeq(name, i, Len(name)) ELSE <<>>

\* PurePath.with_suffix(sfx), on the name
WithSuffix(name, sfx) == SubSeq(name, 1, Len(name) - Len(Suffix(name))) \o sfx

\* PurePath.with_name(new)
WithName(p, new) == SubSeq(p, 1, Len(p) - 1) \o <<new>>

is_yaml_file(p) == Lower(Suffix(PathName(p))) \in {S_yml, S_yaml}

-----------------------------------------------------------------------------
(* map_output_filename *)

map_output_filename(source_path, bundle) ==
    LET name            == PathName(source_path)
        kinds_in_output == {Get(bundle[i], "kind", None) : i \in 1..Len(bundle)}
        name_lower      == Lower(name)
    IN  IF \/ Contains(name_lower, S_deploymentconfig)
           \/ Str(K_DeploymentConfig) \in kinds_in_output
        THEN WithName(source_path, S_deployment_yaml)
        ELSE IF \/ Contains(name_lower, S_route)
                \/ Str(K_Route) \in kinds_in_output
        THEN WithName(source_path, S_ingress_yaml)
        ELSE source_path

\* line 335: the name of the destination file in the output directory
dest_name(source_path, bundle) ==
    WithSuffix(PathName(map_output_filename(source_path, bundle)), S_yaml)

\* lines 339-342: the documents of a bundle with "---" between consecutive ones
RECURSIVE dump_all(_)
dump_all(bundle) ==
    IF Len(bundle) <= 1 THEN bundle
    ELSE <<Head(bundle), Str(<<"-", "-", "-">>)>> \o dump_all(Tail(bundle))

-----------------------------------------------------------------------------
(* Parsing a source file. *)

Malformed == [t |-> "malformed"]    \* text that is no well-formed document

\* a plausible slip: documents are consumed as the parser yields them, so the
\* well-formed documents before the malformed one are taken
safe_load_all_lazy(raw) ==
    LET bad == {i \in 1..Len(raw) : raw[i] = Malformed}
    IN  IF bad = {} THEN ListV(raw)
        ELSE ListV(SubSeq(raw, 1, (CHOOSE i \in bad : \A j \in bad : i <= j) - 1))

\* line 291: list(yaml.safe_load_all(text)): every document, or the exception
safe_load_all(raw) ==
    IF \E i \in 1..Len(raw) : raw[i] = Malformed THEN Raise ELSE ListV(raw)

-----------------------------------------------------------------------------
(* Dispatch of one document (lines 297-330). *)

\* lines 323-330, a plausible slip: an emptied annotations map is kept as {}
pass_through_keep_empty(doc) ==
    LET md == Get(doc, "metadata", None)
    IN  IF ~IsDict(md) THEN doc
        ELSE LET anns == Or(Get(md, "annotations", None), EmptyDict)
             IN  IF ~IsDict(anns) THEN Raise
                 ELSE Put(doc, "metadata", Put(md, "annotations", FilterAnnotations(anns)))

\* lines 323-330: the pass-through document with its annotations trimmed
pass_through(doc) ==
    LET md == Get(doc, "metadata", None)
    IN  IF ~IsDict(md) THEN doc
        ELSE LET anns == Or(Get(md, "annotations", None), EmptyDict)
             IN  IF ~IsDict(anns) THEN Raise                        \* anns.items()
                 ELSE LET kept == FilterAnnotations(anns)
                      IN  IF Truthy(kept)
                          THEN Put(doc, "metadata", Put(md, "annotations", kept))
                          ELSE Put(doc, "metadata", Pop(md, "annotations"))

Bump(s, k) == [s EXCEPT ![k] = @ + 1]

\* st = [summary, converted, warnings, out_docs]; the result adds `raised`
dispatch(doc, st, a) ==
    LET same == [st EXCEPT !.raised = FALSE]
    IN
    IF ~IsDict(doc) THEN same
    ELSE IF "kind" \notin DOMAIN doc.m THEN same
    ELSE
    LET kind == doc.m["kind"]
    IN
    IF kind = Str(K_DeploymentConfig) THEN
        LET d == to_deployment(doc, a.image_registry, a.repo_prefix)
            s1 == [same EXCEPT !.summary = Bump(@, "DeploymentConfig")]
        IN  IF IsRaise(d) THEN [s1 EXCEPT !.raised = TRUE]
            ELSE [s1 EXCEPT !.out_docs = Append(@, d), !.converted = @ + 1]
    ELSE IF kind = Str(K_Route) THEN
        LET d == to_ingress(doc, a.default_domain, a.ingress_class, a.tls_secret)
            s1 == [same EXCEPT !.summary = Bump(@, "Route")]
        IN  IF IsRaise(d) THEN [s1 EXCEPT !.raised = TRUE]
            ELSE [s1 EXCEPT !.out_docs = Append(@, d), !.converted = @ + 1]
    ELSE IF kind = Str(K_BuildConfig) THEN
        LET md == Get(doc, "metadata", EmptyDict)
            s1 == [same EXCEPT !.summary = Bump(@, "BuildConfig")]
        IN  IF ~IsDict(md) THEN [s1 EXCEPT !.raised = TRUE]
            ELSE [s1 EXCEPT !.warnings = Append(@,
                    [about    |-> "BuildConfig",
                     name     |-> Format(Get(md, "name", Str(S_unnamed))),
                     registry |-> IF a.image_registry # <<>>
                                  THEN a.image_registry ELSE <<"A", "C", "R">>])]
    ELSE
        LET d == pass_through(doc)
            s1 == [same EXCEPT !.summary = Bump(@, "Other")]
        IN  IF IsRaise(d) THEN [s1 EXCEPT !.raised = TRUE]
            ELSE [s1 EXCEPT !.out_docs = Append(@, d)]

-----------------------------------------------------------------------------
(* The inputs of a run: options, paths and file contents. *)

K_ConfigMap == <<"C", "o", "n", "f", "i", "g", "M", "a", "p">>
NameA       == Str(<<"a">>)
PlatformKey == S_openshift_io \o <<"x">>
OwnKey      == <<"n", "o", "t", "e">>

RunArgs == {[default_domain |-> <<"d">>, ingress_class |-> <<"n">>,
             tls_secret |-> <<>>, image_registry |-> <<>>, repo_prefix |-> <<>>]}

DocScalar == Str(<<"x">>)
DocNoKind == Dict([metadata |-> Dict([name |-> NameA])])
DocDC ==
    Dict([kind     |-> Str(K_DeploymentConfig),
          metadata |-> Dict([name |-> NameA,
                             annotations |-> Dict(PlatformKey :> Str(<<"1">>))]),
          spec     |-> Dict([template |-> Dict([spec |-> Dict([
                          containers |-> ListV(<<Dict([name |-> Str(<<"c">>)])>>)])])])])
DocDCNullMeta == Dict([kind |-> Str(K_DeploymentConfig), metadata |-> None])
DocRoute ==
    Dict([kind     |-> Str(K_Route),
          metadata |-> Dict([name |-> NameA]),
          spec     |-> Dict([tls |-> Dict([termination |-> Str(<<"e">>)])])])
DocBuildConfig == Dict([kind |-> Str(K_BuildConfig), metadata |-> Dict([name |-> NameA])])
DocConfigMap ==
    Dict([kind     |-> Str(K_ConfigMap),
          metadata |-> Dict([name |-> NameA,
                             annotations |-> Dict(PlatformKey :> Str(<<"1">>))])])

SampleRaw == {DocScalar, DocNoKind, DocDC, DocDCNullMeta, DocRoute,
              DocBuildConfig, DocConfigMap, Malformed}

FileContents == StringsUpTo(SampleRaw, MaxDocs)

YamlPaths == {
    << <<"a">>, <<"a", "p", "p", ".", "y", "a", "m", "l">> >>,
    << <<"b">>, <<"a", "p", "p", ".", "y", "a", "m", "l">> >>,
    << <<"a">>, <<"a", "p", "p", ".", "y", "m", "l">> >>,
    << <<"a">>, <<"R", "o", "u", "t", "e", ".", "Y", "A", "M", "L">> >>,
    << <<"a">>, S_deploymentconfig \o <<"-">> \o S_route \o S_yml >> }

OtherPaths == {
    << <<"a">> >>,
    << <<"a">>, <<"n", "o", "t", "e", "s", ".", "t", "x", "t">> >> }

NoReport == [t |-> "none"]
NoCall   == [fn |-> "none"]

-----------------------------------------------------------------------------
(* main: the run. *)

ZeroSummary == [DeploymentConfig |-> 0, Route |-> 0, BuildConfig |-> 0, Other |-> 0]

Taken == {history[i].path : i \in 1..Len(history)}

\* the last entry of history with its outcome, bundle and destination set
Settle(outcome, bundle, dest) ==
    [history EXCEPT ![Len(history)] =
        [@ EXCEPT !.outcome = outcome, !.bundle = bundle, !.dest = dest]]

RunInit ==
    /\ phase = "Idle"
    /\ args \in RunArgs
    /\ root_created = FALSE
    /\ scanned = 0
    /\ path = <<>>
    /\ docs = <<>>
    /\ idx = 0
    /\ out_docs = <<>>
    /\ summary = ZeroSummary
    /\ converted = 0
    /\ warnings = <<>>
    /\ outDir = <<>>
    /\ history = <<>>
    /\ report = NoReport

HarnessIdle == call = NoCall /\ ret = None
HeapIdle    == heap = <<>> /\ src_refs = None /\ out_refs = None

Init == RunInit /\ HarnessIdle /\ HeapIdle

\* lines 275-284: the output root is created, or the run ends there
Start ==
    /\ phase = "Idle"
    /\ \E ok \in BOOLEAN :
          /\ root_created' = ok
          /\ phase' = IF ok THEN "Scanning" ELSE "Aborted"
    /\ UNCHANGED <<callVars, heapVars, args, scanned, path, docs, idx, out_docs, summary, converted,
                   warnings, outDir, history, report>>

\* lines 286-288: a path that is no file or no .yml/.yaml file is passed over
SkipFile ==
    /\ phase = "Scanning"
    /\ scanned < MaxFiles
    /\ \E p \in OtherPaths : ~is_yaml_file(p) /\ path' = p
    /\ scanned' = scanned + 1
    /\ UNCHANGED <<callVars, heapVars, phase, args, root_created, docs, idx, out_docs, summary, converted,
                   warnings, outDir, history, report>>

\* lines 286-296: the next source file is read and parsed
NextFile ==
    /\ phase = "Scanning"
    /\ scanned < MaxFiles
    /\ \E p \in YamlPaths \ Taken, raw \in FileContents :
          LET parsed == safe_load_all(raw)
              entry  == [path |-> p, raw |-> raw, outcome |-> "dispatching",
                         bundle |-> <<>>, dest |-> <<>>]
          IN  /\ is_yaml_file(p)
              /\ path' = p
              /\ IF IsRaise(parsed)
                 THEN /\ warnings' = Append(warnings, [about |-> "parse", path |-> p])
                      /\ history' = Append(history, [entry EXCEPT !.outcome = "parse_error"])
                      /\ UNCHANGED <<phase, docs, idx, out_docs>>
                 ELSE /\ docs' = parsed.l
                      /\ idx' = 0
                      /\ out_docs' = <<>>
                      /\ phase' = "Dispatching"
                      /\ history' = Append(history, entry)
                      /\ UNCHANGED warnings
    /\ scanned' = scanned + 1
    /\ UNCHANGED <<callVars, heapVars, args, root_created, summary, converted, outDir, report>>

\* lines 297-330, one iteration: the next document of the file is dispatched
Dispatch ==
    /\ phase = "Dispatching"
    /\ idx < Len(docs)
    /\ LET r == dispatch(docs[idx + 1],
                         [summary |-> summary, converted |-> converted,
                          warnings |-> warnings, out_docs |-> out_docs,
                          raised |-> FALSE],
                         args)
       IN  /\ summary' = r.summary
           /\ converted' = r.converted
           /\ warnings' = r.warnings
           /\ out_docs' = r.out_docs
           /\ idx' = idx + 1
           /\ IF r.raised
              THEN phase' = "Aborted" /\ history' = Settle("crashed", r.out_docs, <<>>)
              ELSE UNCHANGED <<phase, history>>
    /\ UNCHANGED <<callVars, heapVars, args, root_created, scanned, path, docs, outDir, report>>

\* lines 333-342: a non-empty bundle is written to its destination
Write ==
    /\ phase = "Dispatching"
    /\ idx = Len(docs)
    /\ IF out_docs = <<>>
       THEN /\ phase' = "Scanning"
            /\ history' = Settle("empty", <<>>, <<>>)
            /\ UNCHANGED outDir
       ELSE LET dest == dest_name(path, out_docs)
            IN  \E ok \in BOOLEAN :
                   IF ok
                   THEN /\ outDir' = [n \in DOMAIN outDir \cup {dest} |->
                                        IF n = dest THEN dump_all(out_docs) ELSE outDir[n]]
                        /\ phase' = "Scanning"
                        /\ history' = Settle("written", out_docs, dest)
                   ELSE /\ phase' = "Aborted"                    \* open(dest, "w")
                        /\ history' = Settle("write_failed", out_docs, dest)
                        /\ UNCHANGED outDir
    /\ UNCHANGED <<callVars, heapVars, args, root_created, scanned, path, docs, idx, out_docs, summary,
                   converted, warnings, report>>

\* line 286: the scan has yielded every path
EndScan ==
    /\ phase = "Scanning"
    /\ phase' = "Reporting"
    /\ UNCHANGED <<callVars, heapVars, args, root_created, scanned, path, docs, idx, out_docs, summary,
                   converted, warnings, outDir, history, report>>

\* lines 344-376: the report is rendered and written; a failed write is only logged
Report ==
    /\ phase = "Reporting"
    /\ \E ok \in BOOLEAN :
          report' = [t |-> "report", summary |-> summary, converted |-> converted,
                     warnings |-> warnings, written |-> ok]
    /\ phase' = "Done"
    /\ UNCHANGED <<callVars, heapVars, args, root_created, scanned, path, docs, idx, out_docs, summary,
                   converted, warnings, outDir, history>>

Next == Start \/ SkipFile \/ NextFile \/ Dispatch \/ Write \/ EndScan \/ Report

Spec == Init /\ [][Next]_vars

-----------------------------------------------------------------------------
(* Claims about the run. *)

Written == {i \in 1..Len(history) : history[i].outcome = "written"}

HasKind(d, k) == IsDict(d) /\ "kind" \in DOMAIN d.m /\ d.m["kind"] = Str(k)

HasDoc(raw, k) == \E i \in 1..Len(raw) : HasKind(raw[i], k)

HasMalformed(raw) == \E i \in 1..Len(raw) : raw[i] = Malformed

\* C1: after a run, every source file with a non-empty bundle has its own file in
\* outDir holding exactly its bundle (no two source files share a destination), and
\* the files with an empty bundle add no file.
C1_EveryBundleKeepsItsOwnFile ==
    phase = "Done" =>
        /\ \A i \in Written :
              /\ history[i].dest \in DOMAIN outDir
              /\ outDir[history[i].dest] = dump_all(history[i].bundle)
        /\ \A i, j \in Written : i # j => history[i].dest # history[j].dest
        /\ Cardinality(DOMAIN outDir) = Cardinality(Written)

\* the destination name C2 states for a written source file
C2_StatedName(e) ==
    LET name_lower == Lower(PathName(e.path))
    IN  IF Contains(name_lower, S_deploymentconfig) \/ HasDoc(e.raw, K_DeploymentConfig)
        THEN S_deployment_yaml
        ELSE IF Contains(name_lower, S_route) \/ HasDoc(e.raw, K_Route)
        THEN S_ingress_yaml
        ELSE WithSuffix(PathName(e.path), S_yaml)

\* C2: a written source file goes to deployment.yaml when its name contains
\* "deploymentconfig" or it held a converted DeploymentConfig, else to ingress.yaml
\* when its name contains "route" or it held a converted Route, else keeps its name
\* (with the output suffix).
C2_DestinationFollowsNameOrKind ==
    \A i \in Written : history[i].dest = C2_StatedName(history[i])

\* C3: a file whose parsing fails adds exactly one warning, emits nothing, changes no
\* counter and no output file, and leaves the run scanning for the next file; this
\* includes a failure in a later document after well-formed ones.
C3_ParseFailureSkipsTheFile ==
    /\ [](\A i \in 1..Len(history) : HasMalformed(history[i].raw) =>
             history[i].outcome = "parse_error" /\ history[i].bundle = <<>>)
    /\ [][(Len(history') = Len(history) + 1
             /\ HasMalformed(history'[Len(history')].raw)) =>
          /\ warnings' = Append(warnings,
                 [about |-> "parse", path |-> history'[Len(history')].path])
          /\ summary' = summary
          /\ converted' = converted
          /\ outDir' = outDir
          /\ phase = "Scanning" /\ phase' = "Scanning"]_vars

\* C3's case: a two-document file failed in its second document, and the run went on
\* to write the next file
C3_Witness ==
    /\ Len(history) = 2
    /\ history[1].raw = <<DocConfigMap, Malformed>>
    /\ history[1].outcome = "parse_error"
    /\ history[2].outcome = "written"
    /\ Len(warnings) = 1
    /\ phase = "Done"

\* C4: once the output root exists nothing aborts the run; the only abort is the
\* failure to create the root, before any file is taken.
C4_OnlyRootFailureAborts ==
    /\ phase = "Aborted" => ~root_created /\ history = <<>>
    /\ phase = "Done" => report # NoReport

\* what C5 states a document contributes to the bundle: 1 document or none
C5_Kept(raw) ==
    SelectSeq(raw, LAMBDA d : IsDict(d) /\ "kind" \in DOMAIN d.m
                               /\ ~HasKind(d, K_BuildConfig))

\* C5: the bundle of a parsed file is its document sequence with each
\* DeploymentConfig replaced by a Deployment, each Route by an Ingress, each other
\* kind passed through, and BuildConfigs, non-maps and kind-less documents removed;
\* a file whose bundle is empty is not written.
C5_BundleIsTheDocumentSequence ==
    \A i \in 1..Len(history) :
        LET e    == history[i]
            kept == C5_Kept(e.raw)
        IN  e.outcome \notin {"parse_error", "dispatching"} =>
              /\ Len(e.bundle) = Len(kept)
              /\ \A k \in 1..Len(kept) :
                    IF HasKind(kept[k], K_DeploymentConfig)
                    THEN HasKind(e.bundle[k], K_Deployment)
                    ELSE IF HasKind(kept[k], K_Route)
                    THEN HasKind(e.bundle[k], K_Ingress)
                    ELSE e.bundle[k].m["kind"] = kept[k].m["kind"]
              /\ (e.bundle = <<>>) = (e.outcome = "empty")

\* a step that dispatches a BuildConfig
C10_BuildConfigStep ==
    /\ phase = "Dispatching" /\ idx < Len(docs) /\ idx' = idx + 1
    /\ HasKind(docs[idx + 1], K_BuildConfig)

\* C10: no counter ever decreases, the converted total is DeploymentConfig + Route in
\* every state, a BuildConfig adds 1 to its counter and 1 warning and leaves the
\* converted total alone, and the report shows the counters after the last file.
C10_CountersAreMonotoneAndConsistent ==
    /\ [](converted = summary.DeploymentConfig + summary.Route)
    /\ [](report # NoReport =>
             report.summary = summary /\ report.converted = converted)
    /\ [][/\ \A k \in DOMAIN summary : summary'[k] >= summary[k]
          /\ C10_BuildConfigStep =>
                /\ summary' = Bump(summary, "BuildConfig")
                /\ Len(warnings') = Len(warnings) + 1
                /\ converted' = converted]_vars

-----------------------------------------------------------------------------
(* map_image on its own: every input of ImageCalls, applied once. *)

ImageAlphabet == {"a", "/", ".", ":"}

ImageCalls ==
    [fn             : {"map_image"},
     image          : StringsUpTo(ImageAlphabet, MaxImgLen),
     name_hint      : {<<>>, <<"w">>},
     image_registry : {<<>>, <<"r">>, <<"r", ":", "t">>, <<":">>},
     repo_prefix    : {<<>>, <<"p">>}]

ImageInit == RunInit /\ HeapIdle /\ call \in ImageCalls /\ ret = None

CallMapImage ==
    /\ call.fn = "map_image"
    /\ ret = None
    /\ ret' = Str(map_image(call.image, call.name_hint,
                            call.image_registry, call.repo_prefix))
    /\ UNCHANGED <<runVars, heapVars, call>>

SpecImage == ImageInit /\ [][CallMapImage]_vars

\* the result C7 states, rule by rule
C7_Stated(c) ==
    LET repo == IF c.repo_prefix # <<>>
                THEN c.repo_prefix \o <<"/">> \o c.name_hint ELSE c.name_hint
        has(s, ch) == \E i \in 1..Len(s) : s[i] = ch
    IN  CASE c.image # <<>> /\ (has(c.image, "/") \/ has(c.image, "."))
                /\ has(c.image, ":")          -> c.image
          [] OTHER ->
        CASE has(c.image_registry, ":")       -> c.image_registry
          [] OTHER ->
        CASE c.image_registry # <<>>          -> c.image_registry \o <<"/">> \o repo \o S_latest
          [] c.image # <<>>                   -> c.image
          [] OTHER                            -> repo \o S_latest

\* C7: map_image returns the result of the first matching rule (raw image kept when
\* it looks fully qualified; a tag-bearing override kept; else override/repo:latest,
\* else the raw image, else repo:latest), and never the empty string.
C7_FirstMatchingRule ==
    ret # None => ret.s = C7_Stated(call) /\ ret.s # <<>>

\* C7's case: a fully qualified raw image met a tag-bearing override and was kept
C7_Witness ==
    /\ ret # None
    /\ call.image = <<"/", ":">>
    /\ call.image_registry = <<"r", ":", "t">>
    /\ ret.s = call.image

-----------------------------------------------------------------------------
(* to_ingress on its own: every Route of RouteCalls, converted once. *)

RouteMetas == {Dict([name |-> Str(<<"a", "p", "i">>)]), EmptyDict}

RouteSpecs ==
    {Dict(h @@ s) :
        h \in {<<>>, [host |-> Str(<<>>)], [host |-> Str(<<"h">>)]},
        s \in {<<>>, [tls |-> None], [tls |-> EmptyDict],
               [tls |-> Dict([termination |-> Str(<<"e">>)])]}}

Routes ==
    {Dict([kind |-> Str(K_Route), metadata |-> m, spec |-> s]) :
        m \in RouteMetas, s \in RouteSpecs}
    \cup {Dict([kind |-> Str(K_Route), spec |-> s]) : s \in RouteSpecs}
    \cup {Dict([kind |-> Str(K_Route), metadata |-> m]) : m \in RouteMetas \cup {None}}
    \cup {Dict([kind |-> Str(K_Route), metadata |-> m, spec |-> s]) :
            m \in RouteMetas, s \in {None, Str(<<"x">>)}}

RouteCalls ==
    [fn             : {"to_ingress"},
     route          : Routes,
     default_domain : {<<"d">>},
     ingress_class  : {<<"n">>},
     tls_secret     : {<<>>, <<"s">>}]

IngressInit == RunInit /\ HeapIdle /\ call \in RouteCalls /\ ret = None

CallToIngress ==
    /\ call.fn = "to_ingress"
    /\ ret = None
    /\ ret' = to_ingress(call.route, call.default_domain,
                         call.ingress_class, call.tls_secret)
    /\ UNCHANGED <<runVars, heapVars, call>>

SpecIngress == IngressInit /\ [][CallToIngress]_vars

\* the Route's spec and name as the converter reads them
C8_Spec(c) == Or(Get(c.route, "spec", EmptyDict), EmptyDict)
C8_Name(c) == Format(Get(Get(c.route, "metadata", EmptyDict), "name", Str(S_web)))
C8_Host(c) ==
    Or(Get(C8_Spec(c), "host", None), Str(C8_Name(c) \o <<".">> \o c.default_domain))

C8_OneEntry(c, secret) ==
    /\ "tls" \in DOMAIN ret.m["spec"].m
    /\ ret.m["spec"].m["tls"] =
          ListV(<<Dict([hosts |-> ListV(<<C8_Host(c)>>), secretName |-> Str(secret)])>>)

C8_Converted == ret # None /\ ~IsRaise(ret)

\* C8 as stated: with a TLS secret one entry with it; else one entry "<name>-tls"
\* whenever the Route's spec has a tls key, whatever its content; else no tls key.
C8_TlsWheneverKeyPresent ==
    C8_Converted =>
        IF call.tls_secret # <<>> THEN C8_OneEntry(call, call.tls_secret)
        ELSE IF "tls" \in DOMAIN C8_Spec(call).m
        THEN C8_OneEntry(call, C8_Name(call) \o S_tls)
        ELSE "tls" \notin DOMAIN ret.m["spec"].m

\* C8, amended: with a TLS secret one entry with it; else one entry "<name>-tls"
\* when the Route's spec.tls is present and not empty (not null, not an empty map);
\* else no tls key.  The host is spec.host, or "<name>.<defaultDomain>" without one.
C8_TlsWhenDeclared ==
    C8_Converted =>
        /\ ret.m["spec"].m["rules"].l[1].m["host"] = C8_Host(call)
        /\ IF call.tls_secret # <<>> THEN C8_OneEntry(call, call.tls_secret)
           ELSE IF "tls" \in DOMAIN C8_Spec(call).m /\ Truthy(C8_Spec(call).m["tls"])
           THEN C8_OneEntry(call, C8_Name(call) \o S_tls)
           ELSE "tls" \notin DOMAIN ret.m["spec"].m

\* C8's case: a Route named api with spec.tls and no host, no override secret
C8_Witness ==
    /\ C8_Converted
    /\ call.tls_secret = <<>>
    /\ {"metadata", "spec"} \subseteq DOMAIN call.route.m
    /\ call.route.m["metadata"] = Dict([name |-> Str(<<"a", "p", "i">>)])
    /\ call.route.m["spec"] = Dict([tls |-> Dict([termination |-> Str(<<"e">>)])])
    /\ "tls" \in DOMAIN ret.m["spec"].m
    /\ ret.m["spec"].m["tls"] =
          ListV(<<Dict([hosts |-> ListV(<<Str(<<"a", "p", "i", ".", "d">>)>>),
                        secretName |-> Str(<<"a", "p", "i", "-", "t", "l", "s">>)])>>)

-----------------------------------------------------------------------------
(* dispatch on its own: an already converted document, fed through repeatedly. *)

AnnotationKeys == {PlatformKey, S_openshift_io \o <<"y">>, OwnKey, S_ingress_class_key}

AnnotationMaps ==
    {Dict([k \in S |-> Str(<<"1">>)]) : S \in SUBSET AnnotationKeys}

PassMetas ==
    {None, Str(<<"x">>), Dict([name |-> NameA]), Dict([name |-> NameA, annotations |-> None])}
    \cup {Dict([name |-> NameA, annotations |-> a]) : a \in AnnotationMaps}

\* Deployments and Ingresses: converter outputs, and hand-written ones
ConvertedDocs ==
    {to_deployment(DocDC, <<>>, <<>>), to_deployment(DocDC, <<"r">>, <<"p">>),
     to_ingress(DocRoute, <<"d">>, <<"n">>, <<>>),
     to_ingress(DocRoute, <<"d">>, <<"n">>, <<"s">>)}
    \cup {Dict([kind |-> Str(k), metadata |-> m]) :
            k \in {K_Deployment, K_Ingress}, m \in PassMetas}
    \cup {Dict([kind |-> Str(k)]) : k \in {K_Deployment, K_Ingress}}

DispatchCalls == [fn : {"dispatch"}, doc : ConvertedDocs]

FreshAggregate ==
    [summary |-> ZeroSummary, converted |-> 0, warnings |-> <<>>,
     out_docs |-> <<>>, raised |-> FALSE]

PassInit == RunInit /\ HeapIdle /\ call \in DispatchCalls /\ ret = None

\* the document is dispatched as the only document of a file
DispatchDoc ==
    /\ call.fn = "dispatch"
    /\ ret = None
    /\ ret' = ListV(<<dispatch(call.doc, FreshAggregate, args)>>)
    /\ UNCHANGED <<runVars, heapVars, call>>

\* the emitted document is dispatched again
DispatchAgain ==
    /\ call.fn = "dispatch"
    /\ ret # None
    /\ Len(ret.l) < MaxPasses
    /\ LET last == ret.l[Len(ret.l)]
       IN  /\ ~last.raised
           /\ last.out_docs # <<>>
           /\ ret' = ListV(Append(ret.l,
                        dispatch(last.out_docs[Len(last.out_docs)], last, args)))
    /\ UNCHANGED <<runVars, heapVars, call>>

PassNext == DispatchDoc \/ DispatchAgain

SpecPass == PassInit /\ [][PassNext]_vars

\* out is d with the platform annotations removed, and no annotations key when
\* none remains
C6_Trimmed(d, out) ==
    /\ IsDict(out)
    /\ DOMAIN out.m = DOMAIN d.m
    /\ \A k \in DOMAIN d.m \ {"metadata"} : out.m[k] = d.m[k]
    /\ "metadata" \in DOMAIN d.m =>
          IF ~IsDict(d.m["metadata"]) THEN out.m["metadata"] = d.m["metadata"]
          ELSE LET mi   == d.m["metadata"].m
                   mo   == out.m["metadata"].m
                   anns == IF "annotations" \in DOMAIN mi /\ IsDict(mi["annotations"])
                           THEN mi["annotations"].m ELSE <<>>
                   keep == {k \in DOMAIN anns : ~StartsWith(k, S_openshift_io)}
               IN  /\ DOMAIN mo \ {"annotations"} = DOMAIN mi \ {"annotations"}
                   /\ \A k \in DOMAIN mi \ {"annotations"} : mo[k] = mi[k]
                   /\ IF keep = {} THEN "annotations" \notin DOMAIN mo
                      ELSE /\ "annotations" \in DOMAIN mo
                           /\ DOMAIN mo["annotations"].m = keep
                           /\ \A k \in keep : mo["annotations"].m[k] = anns[k]

\* C6: a Deployment or Ingress document is never converted: each pass adds 1 to Other
\* only, leaves the converted total and the warnings alone, and emits the input with
\* its platform annotations removed (no annotations key when none remains); a second
\* pass emits the same document again.
C6_PassThroughIsIdempotent ==
    ret # None =>
        \A i \in 1..Len(ret.l) :
            LET r    == ret.l[i]
                prev == IF i = 1 THEN FreshAggregate ELSE ret.l[i - 1]
                d    == IF i = 1 THEN call.doc ELSE prev.out_docs[Len(prev.out_docs)]
            IN  /\ ~r.raised
                /\ r.summary = Bump(prev.summary, "Other")
                /\ r.converted = 0
                /\ r.warnings = <<>>
                /\ Len(r.out_docs) = i
                /\ SubSeq(r.out_docs, 1, i - 1) = prev.out_docs
                /\ C6_Trimmed(d, r.out_docs[i])
                /\ i > 1 => r.out_docs[i] = d

\* C6's case: a Deployment made by to_deployment, whose only annotations were the
\* platform's, went through dispatch twice
C6_Witness ==
    /\ ret # None
    /\ Len(ret.l) = 2
    /\ call.doc = to_deployment(DocDC, <<>>, <<>>)
    /\ "annotations" \in DOMAIN call.doc.m["metadata"].m
    /\ "annotations" \notin DOMAIN ret.l[2].out_docs[2].m["metadata"].m

-----------------------------------------------------------------------------
(* to_deployment at the level of object identity: which label map is which    *)
(* object.  heap[a] is the content of the map at address a; deepcopy makes a   *)
(* new object, appended to the heap.                                           *)

LabelContents == {EmptyDict, Dict(S_app :> Str(<<"a">>)), Dict(<<"t">> :> Str(<<"b">>))}

SourceHeaps == StringsUpTo(LabelContents, MaxSrcMaps)

\* address 0: the labels key is absent; equal addresses: an aliased map
SourceRefs(h) ==
    [t : {"src"}, name : {Str(<<"w">>)},
     meta_labels : 0..Len(h), tpl_labels : 0..Len(h)]

\* a plausible slip: one copy shared by the three places
label_copies_shared(h, a) ==
    [heap |-> Append(h, h[a]),
     labels |-> Len(h) + 1, selector |-> Len(h) + 1, template |-> Len(h) + 1]

\* lines 119-121: labels, selector_labels, template_labels, each a deepcopy
label_copies(h, a) ==
    LET h1 == Append(h, h[a])
        l  == Len(h1)
        h2 == Append(h1, h1[l])
        h3 == Append(h2, h2[l])
    IN  [heap |-> h3, labels |-> l, selector |-> l + 1, template |-> l + 2]

\* lines 109-121 on the heap
to_deployment_refs(h, src) ==
    LET \* deepcopy(metadata), norm_labels: the copy's labels, or a new {}
        h1 == Append(h, IF src.meta_labels # 0 THEN h[src.meta_labels] ELSE EmptyDict)
        a1 == Len(h1)
        \* deepcopy(spec), norm_labels
        h2 == Append(h1, IF src.tpl_labels # 0 THEN h[src.tpl_labels] ELSE EmptyDict)
        a2 == Len(h2)
        \* tpl labels or meta labels or {"app": name}
        h3 == IF Truthy(h2[a2]) \/ Truthy(h2[a1]) THEN h2
              ELSE Append(h2, Dict(S_app :> src.name))
        a  == IF Truthy(h2[a2]) THEN a2 ELSE IF Truthy(h2[a1]) THEN a1 ELSE Len(h3)
    IN  label_copies(h3, a)

LabelsInit ==
    /\ RunInit /\ HarnessIdle
    /\ heap \in SourceHeaps
    /\ src_refs \in SourceRefs(heap)
    /\ out_refs = None

ConvertLabels ==
    /\ src_refs # None
    /\ out_refs = None
    /\ LET r == to_deployment_refs(heap, src_refs)
       IN  /\ heap' = r.heap
           /\ out_refs' = [t |-> "out", labels |-> r.labels,
                           selector |-> r.selector, template |-> r.template]
    /\ UNCHANGED <<runVars, callVars, src_refs>>

LabelPlaces == {"labels", "selector", "template"}

\* a caller changes one of the three maps of the Deployment in place
MutateLabels ==
    /\ out_refs # None
    /\ \E w \in LabelPlaces :
          heap' = [heap EXCEPT ![out_refs[w]] = Put(@, <<"t">>, Str(<<"z">>))]
    /\ UNCHANGED <<runVars, callVars, src_refs, out_refs>>

LabelsNext == ConvertLabels \/ MutateLabels

SpecLabels == LabelsInit /\ [][LabelsNext]_vars

SourceAddrs == {src_refs.meta_labels, src_refs.tpl_labels} \ {0}

\* the labels C9 states: template labels, else top-level labels, else {app: name}
C9_Stated ==
    LET tpl  == IF src_refs.tpl_labels # 0 THEN heap[src_refs.tpl_labels] ELSE EmptyDict
        meta == IF src_refs.meta_labels # 0 THEN heap[src_refs.meta_labels] ELSE EmptyDict
    IN  IF DOMAIN tpl.m # {} THEN tpl
        ELSE IF DOMAIN meta.m # {} THEN meta
        ELSE Dict(S_app :> src_refs.name)

\* C9: the Deployment's three label maps are distinct objects, none of them an
\* object of the source; right after conversion all three hold the labels chosen by
\* the fallback; changing one of them later changes neither of the other two nor
\* the source's maps.
C9_LabelMapsAreIndependent ==
    /\ [](out_refs # None =>
            /\ \A v, w \in LabelPlaces : v # w => out_refs[v] # out_refs[w]
            /\ \A w \in LabelPlaces : out_refs[w] \notin SourceAddrs)
    /\ [][(out_refs = None /\ out_refs' # None) =>
            /\ \A w \in LabelPlaces : heap'[out_refs'[w]] = C9_Stated
            /\ \A a \in 1..Len(heap) : heap'[a] = heap[a]]_vars
    /\ [][(out_refs # None /\ heap' # heap) =>
            /\ \E w \in LabelPlaces :
                  \A v \in LabelPlaces \ {w} : heap'[out_refs[v]] = heap[out_refs[v]]
            /\ \A a \in SourceAddrs : heap'[a] = heap[a]]_vars

\* C9's case: the source's two label maps are one aliased object, the Deployment was
\* made, and its selector was changed afterwards while its labels kept their content
C9_Witness ==
    /\ out_refs # None
    /\ src_refs.meta_labels = src_refs.tpl_labels
    /\ src_refs.meta_labels # 0
    /\ heap[src_refs.tpl_labels] = Dict(S_app :> Str(<<"a">>))
    /\ heap[out_refs.labels] = heap[src_refs.tpl_labels]
    /\ heap[out_refs.selector] # heap[out_refs.labels]

====
